---- MODULE Spec2Model ----
(***************************************************************************)
(* Model of lib/src/extras/logging.rs: the module-width tracker            *)
(* (MAX_MODULE_WIDTH, max_module_width), the record formatters, the        *)
(* dispatch builder initialize_logging and log_error_cause_chain.          *)
(***************************************************************************)
EXTENDS Integers, Sequences, FiniteSets, TLC

(***************************************************************************)
(* Bounds of the model.                                                    *)
(***************************************************************************)
\* number of threads that emit log records concurrently
NumThreads == 2
\* longest command-line log_tags list
MaxLogTags == 1
\* largest number of entries of the file-sourced tags map
MaxFileTags == 2
\* longest cause chain handed to log_error_cause_chain
MaxCauses == 2
\* largest number of initialize_logging calls in one process
MaxCalls == 2
\* largest number of records offered to a filtered pipeline
MaxRecords == 2

Threads == 1..NumThreads

(***************************************************************************)
(* log::LevelFilter, in the order of the enum: Off < Error < Warn < Info   *)
(* < Debug < Trace.                                                        *)
(***************************************************************************)
Off == 0
Error == 1
Warn == 2
Info == 3
Debug == 4
Trace == 5

\* the levels a configuration is drawn from
Levels == {Off, Info, Debug}

DEFAULT_LEVEL == Info

\* Option<T>: None, or Some(x) holding one value
None == <<>>
Some(x) == <<x>>
Options(S) == {None} \cup {Some(x) : x \in S}

NIMIQ_MODULES ==
    << "nimiq_accounts", "beserial", "nimiq_bls", "nimiq_blockchain",
       "nimiq_blockchain_albatross", "nimiq_block_production",
       "nimiq_block_production_albatross", "nimiq_block",
       "nimiq_block_albatross", "nimiq_block_base", "nimiq_account",
       "nimiq_transaction", "nimiq_client", "nimiq_collections",
       "nimiq_consensus", "nimiq_database", "nimiq_hash",
       "nimiq_key_derivation", "nimiq_keys", "nimiq_lib", "libargon2_sys",
       "nimiq_macros", "nimiq_mempool", "nimiq_messages",
       "nimiq_metrics_server", "nimiq_mnemonic", "nimiq_network",
       "nimiq_network_primitives", "nimiq_primitives", "nimiq_rpc_server",
       "nimiq_utils", "nimiq_validator", "nimiq_handel" >>

Range(s) == {s[i] : i \in DOMAIN s}

(***************************************************************************)
(* Strings: str::split("::").last() and format!("{: <width$}").            *)
(***************************************************************************)
\* the index at which the last "::"-separated segment of s starts, scanning
\* from position i down to the first character
RECURSIVE LastSep(_, _)
LastSep(s, i) ==
    IF i < 2 THEN 1
    ELSE IF SubSeq(s, i - 1, i) = "::" THEN i + 1
    ELSE LastSep(s, i - 1)

LastSegment(s) == SubSeq(s, LastSep(s, Len(s)), Len(s))

RECURSIVE Spaces(_)
Spaces(n) == IF n <= 0 THEN "" ELSE " " \o Spaces(n - 1)

\* the name as it is, with no fill
PadRight_unpadded(s, width) == s

\* left-aligned, filled with spaces up to width, never truncated
PadRight(s, width) == s \o Spaces(width - Len(s))

\* str::starts_with
starts_with(s, prefix) ==
    Len(s) >= Len(prefix) /\ SubSeq(s, 1, Len(prefix)) = prefix

\* the module of a target: the segment before the first "::"
RECURSIVE FirstSep(_, _)
FirstSep(s, i) ==
    IF i >= Len(s) THEN Len(s) + 1
    ELSE IF SubSeq(s, i, i + 1) = "::" THEN i
    ELSE FirstSep(s, i + 1)

Crate(s) == SubSeq(s, 1, FirstSep(s, 1) - 1)

\* the targets of the records the threads emit
Targets ==
    { "nimiq_lib::extras::logging",
      "nimiq_blockchain_albatross::chain_store",
      "nimiq_network_primitives",
      "nimiq_block_production_albatross" }

(***************************************************************************)
(* Inputs of initialize_logging.                                           *)
(***************************************************************************)
\* the modules a tag may name: a first-party module and a third-party one
TagModules == {"nimiq_lib", "hyper"}

\* the log files a configuration may name
FileNames == {"app.log"}

\* finite maps from a subset of S to T with at most n entries
MapsUpTo(S, T, n) ==
    UNION {[D -> T] : D \in {X \in SUBSET S : Cardinality(X) <= n}}

\* sequences over S of length at most n
SeqsUpTo(S, n) == UNION {[1..k -> S] : k \in 0..n}

\* config_file::LogSettings
LogSettingsSet ==
    [ level : Options(Levels),
      tags : MapsUpTo(TagModules, Levels, MaxFileTags),
      file : Options(FileNames),
      timestamps : BOOLEAN ]

\* LogSettings::default()
LogSettings_default ==
    [level |-> None, tags |-> <<>>, file |-> None, timestamps |-> FALSE]

\* command_line::CommandLine, the two fields initialize_logging reads
CommandLineSet ==
    [ log_level : Options(Levels),
      log_tags : Options(SeqsUpTo(TagModules \X Levels, MaxLogTags)) ]

(***************************************************************************)
(* fern::Dispatch as initialize_logging builds it: the formatter, the      *)
(* global default level, the per-module levels and the chained outputs.    *)
(***************************************************************************)
Dispatch_new ==
    [format |-> "default", level |-> Trace, levels |-> <<>>, output |-> <<>>,
     filters |-> <<>>]

\* Dispatch::level: the global default threshold
level(self, lvl) == [self EXCEPT !.level = lvl]

\* Dispatch::level_for: the threshold of one module, replacing an earlier one
level_for(self, module, lvl) ==
    [self EXCEPT !.levels = (module :> lvl) @@ self.levels]

\* Dispatch::chain: one more output
chain(self, sink) == [self EXCEPT !.output = Append(self.output, sink)]

\* Dispatch::filter: one more predicate a record's metadata must satisfy
filter(self, predicate) ==
    [self EXCEPT !.filters = Append(self.filters, predicate)]

\* a filter predicate applied to the target of a record's metadata
accepts(predicate, target) ==
    CASE predicate[1] = "starts_with" -> starts_with(target, predicate[2])
      [] predicate[1] = "module_in"   -> Crate(target) \in predicate[2]

\* a filter that accepts the targets whose module is in NIMIQ_MODULES
only_nimiq_members(self) == filter(self, << "module_in", Range(NIMIQ_MODULES) >>)

\* NimiqDispatch::only_nimiq
only_nimiq(self) == filter(self, << "starts_with", "nimiq" >>)

\* a record passes the pipeline's filters when every one of them accepts it
passes_filters(self, target) ==
    \A i \in DOMAIN self.filters : accepts(self.filters[i], target)

\* NimiqDispatch::pretty_logging: selects one of the two formatters
pretty_logging(self, show_timestamps) ==
    [self EXCEPT !.format =
        IF show_timestamps THEN "pretty_logging_with_timestamps"
        ELSE "pretty_logging"]

\* the first i modules of NIMIQ_MODULES get the level, one level_for each
RECURSIVE level_for_nimiq_loop(_, _, _)
level_for_nimiq_loop(builder, lvl, i) ==
    IF i = 0 THEN builder
    ELSE level_for(level_for_nimiq_loop(builder, lvl, i - 1),
                   NIMIQ_MODULES[i], lvl)

\* the level given only to the modules whose name starts with "nimiq"
RECURSIVE level_for_nimiq_prefixed_loop(_, _, _)
level_for_nimiq_prefixed_loop(builder, lvl, i) ==
    IF i = 0 THEN builder
    ELSE LET rest == level_for_nimiq_prefixed_loop(builder, lvl, i - 1)
         IN  IF starts_with(NIMIQ_MODULES[i], "nimiq")
             THEN level_for(rest, NIMIQ_MODULES[i], lvl)
             ELSE rest

level_for_nimiq_prefixed(self, lvl) ==
    level_for_nimiq_prefixed_loop(self, lvl, Len(NIMIQ_MODULES))

level_for_nimiq(self, lvl) ==
    level_for_nimiq_loop(self, lvl, Len(NIMIQ_MODULES))

\* Option::unwrap_or
unwrap_or(opt, default) == IF opt = None THEN default ELSE opt[1]

\* HashMap::extend with a list of pairs: each pair inserted in order
RECURSIVE extend(_, _)
extend(tags, pairs) ==
    IF pairs = <<>> THEN tags
    ELSE extend((pairs[1][1] :> pairs[1][2]) @@ tags, Tail(pairs))

\* the file-sourced level kept when there is one
merge_level_file_first(command_line_opt, lvl) ==
    IF lvl # None THEN lvl
    ELSE IF command_line_opt # None THEN command_line_opt[1].log_level
    ELSE lvl

\* the command-line tags inserted first, the file-sourced tags over them
merge_tags_file_wins(command_line_opt, tags) ==
    IF command_line_opt # None /\ command_line_opt[1].log_tags # None
    THEN tags @@ extend(<<>>, command_line_opt[1].log_tags[1])
    ELSE tags

\* lines 163-175: the settings after the command-line overrides
merge_level(command_line_opt, lvl) ==
    IF command_line_opt # None /\ command_line_opt[1].log_level # None
    THEN command_line_opt[1].log_level
    ELSE lvl

merge_tags(command_line_opt, tags) ==
    IF command_line_opt # None /\ command_line_opt[1].log_tags # None
    THEN extend(tags, command_line_opt[1].log_tags[1])
    ELSE tags

merged_settings(command_line_opt, settings_opt) ==
    LET settings == unwrap_or(settings_opt, LogSettings_default)
    IN  [settings EXCEPT
            !.level = merge_level(command_line_opt, settings.level),
            !.tags = merge_tags(command_line_opt, settings.tags)]

\* lines 184-186: one level_for per entry of settings.tags
RECURSIVE level_for_tags(_, _)
level_for_tags(dispatch, tags) ==
    IF DOMAIN tags = {} THEN dispatch
    ELSE LET module == CHOOSE m \in DOMAIN tags : TRUE
             rest == [m \in DOMAIN tags \ {module} |-> tags[m]]
         IN  level_for_tags(level_for(dispatch, module, tags[module]), rest)

\* lines 178-181: formatter, global default, first-party level
base_dispatch(settings) ==
    level_for_nimiq(
        level(pretty_logging(Dispatch_new, settings.timestamps),
              DEFAULT_LEVEL),
        unwrap_or(settings.level, DEFAULT_LEVEL))

\* lines 189-194: the sink
Stderr == <<"stderr">>
File(filename) == <<"file", filename>>

\* standard error chained whether or not a file is
with_sink_both(dispatch, settings) ==
    IF settings.file # None
    THEN chain(chain(dispatch, File(settings.file[1])), Stderr)
    ELSE chain(dispatch, Stderr)

with_sink(dispatch, settings) ==
    IF settings.file # None
    THEN chain(dispatch, File(settings.file[1]))
    ELSE chain(dispatch, Stderr)

\* the tags applied before level_for_nimiq instead of after it
build_dispatch_tags_first(settings) ==
    with_sink(
        level_for_nimiq(
            level_for_tags(
                level(pretty_logging(Dispatch_new, settings.timestamps),
                      DEFAULT_LEVEL),
                settings.tags),
            unwrap_or(settings.level, DEFAULT_LEVEL)),
        settings)

\* the pipeline handed to apply when the sink could be attached
build_dispatch(settings) ==
    with_sink(level_for_tags(base_dispatch(settings), settings.tags), settings)

\* the threshold the installed pipeline applies to a module
threshold(dispatch, module) ==
    IF module \in DOMAIN dispatch.levels THEN dispatch.levels[module]
    ELSE dispatch.level

(***************************************************************************)
(* State.                                                                  *)
(***************************************************************************)
VARIABLES
    MAX_MODULE_WIDTH,   \* the static AtomicUsize
    fmt,                \* per thread: the formatter call it is executing
    observed,           \* history: the names max_module_width was called with
    logger,             \* the installed pipeline: None, or Some(dispatch)
    result,             \* what the last initialize_logging call returned
    calls,              \* number of initialize_logging calls so far
    args,               \* the arguments of the call, when fixed in advance
    cause_chain,        \* the log_error_cause_chain call being executed
    filtered            \* history: the records offered to an only_nimiq pipeline

vars == << MAX_MODULE_WIDTH, fmt, observed, logger, result, calls, args,
           cause_chain, filtered >>

width_vars == << MAX_MODULE_WIDTH, fmt, observed >>
init_vars == << logger, result, calls >>

InitialWidth == 20

IdleFormatter ==
    [pc |-> "idle", record |-> "", timestamps |-> FALSE, target_text |-> "",
     max_width |-> 0, target |-> "", line |-> ""]

IdleCauseChain ==
    [pc |-> "idle", chain |-> <<>>, fail |-> 0, emitted |-> <<>>]

InitState ==
    /\ MAX_MODULE_WIDTH = InitialWidth
    /\ fmt = [t \in Threads |-> IdleFormatter]
    /\ observed = {}
    /\ logger = None
    /\ result = "none"
    /\ calls = 0
    /\ cause_chain = IdleCauseChain
    /\ filtered = << >>

Init == InitState /\ args = None

\* the arguments of initialize_logging and whether the log file can be opened
ArgsSet ==
    { a \in [ command_line_opt : Options(CommandLineSet),
              settings_opt : Options(LogSettingsSet),
              file_ok : BOOLEAN ] :
        a.file_ok \/ (a.settings_opt # None /\ a.settings_opt[1].file # None) }

\* a process whose command line, configuration file and file system are fixed
InitArgs == InitState /\ args \in {Some(a) : a \in ArgsSet}

(***************************************************************************)
(* log_enabled!: a record of the level and target passes the installed     *)
(* pipeline; nothing passes while no pipeline is installed.                *)
(***************************************************************************)
log_enabled(lvl, target) ==
    /\ logger # None
    /\ lvl # Off
    /\ lvl <= threshold(logger[1], Crate(target))

(***************************************************************************)
(* max_module_width inside the formatter closure, which the logging        *)
(* substrate runs for a record on the thread that emits it.  The load      *)
(* (line 59) and the store (line 61) are separate atomic steps.            *)
(***************************************************************************)
\* Display of log::Level
level_name(lvl) ==
    CASE lvl = Error -> "ERROR"
      [] lvl = Warn  -> "WARN"
      [] lvl = Info  -> "INFO"
      [] lvl = Debug -> "DEBUG"
      [] lvl = Trace -> "TRACE"

\* Local::now() in the layout %Y-%m-%d %H:%M:%S
Timestamp == "2019-06-01 12:00:00"

\* the level and the message of the records the threads emit
RecordLevel == Info
RecordMessage == "message"

\* the two format strings (lines 86 and 100), colours left out
format_line(show_timestamps, lvl, target, message) ==
    " " \o (IF show_timestamps THEN Timestamp \o " " ELSE "")
        \o PadRight(level_name(lvl), 5) \o " " \o target \o " | " \o message

\* the load with no comparison: every call stores the length of its name
FormatLoad_no_compare(t) ==
    /\ fmt[t].pc # "store"
    /\ \E record_target \in Targets, show_timestamps \in BOOLEAN :
         LET target_text == LastSegment(record_target)
         IN  /\ observed' = observed \cup {target_text}
             /\ fmt' = [fmt EXCEPT ![t] =
                    [pc |-> "store", record |-> record_target,
                     timestamps |-> show_timestamps,
                     target_text |-> target_text,
                     max_width |-> MAX_MODULE_WIDTH, target |-> "",
                     line |-> ""]]
    /\ UNCHANGED << MAX_MODULE_WIDTH, init_vars, args, cause_chain, filtered >>

\* lines 82-83 and 59-60: the last segment of the target, then the load;
\* the record goes through one of the two formatters
FormatLoad(t) ==
    /\ fmt[t].pc # "store"
    /\ \E record_target \in Targets, show_timestamps \in BOOLEAN :
         LET target_text == LastSegment(record_target)
             max_width == MAX_MODULE_WIDTH
             target == PadRight(target_text, max_width)
         IN  /\ observed' = observed \cup {target_text}
             /\ fmt' = [fmt EXCEPT ![t] =
                    IF max_width < Len(target_text)
                    THEN [pc |-> "store", record |-> record_target,
                          timestamps |-> show_timestamps,
                          target_text |-> target_text,
                          max_width |-> max_width, target |-> "",
                          line |-> ""]
                    ELSE [pc |-> "done", record |-> record_target,
                          timestamps |-> show_timestamps,
                          target_text |-> target_text,
                          max_width |-> max_width,
                          target |-> target,
                          line |-> format_line(show_timestamps, RecordLevel,
                                               target, RecordMessage)]]
    /\ UNCHANGED << MAX_MODULE_WIDTH, init_vars, args, cause_chain, filtered >>

\* the store without line 62: the width loaded before the store is returned
FormatStore_stale(t) ==
    /\ fmt[t].pc = "store"
    /\ MAX_MODULE_WIDTH' = Len(fmt[t].target_text)
    /\ LET target == PadRight(fmt[t].target_text, fmt[t].max_width)
       IN  fmt' = [fmt EXCEPT ![t] =
               [pc |-> "done", record |-> fmt[t].record,
                timestamps |-> fmt[t].timestamps,
                target_text |-> fmt[t].target_text,
                max_width |-> fmt[t].max_width,
                target |-> target,
                line |-> format_line(fmt[t].timestamps, RecordLevel,
                                     target, RecordMessage)]]
    /\ UNCHANGED << observed, init_vars, args, cause_chain, filtered >>

\* lines 61-64, 84 and 85-90: the store, the returned width, the padded
\* target and the line
FormatStore(t) ==
    /\ fmt[t].pc = "store"
    /\ LET len == Len(fmt[t].target_text)
           target == PadRight(fmt[t].target_text, len)
       IN  /\ MAX_MODULE_WIDTH' = len
           /\ fmt' = [fmt EXCEPT ![t] =
                  [pc |-> "done", record |-> fmt[t].record,
                   timestamps |-> fmt[t].timestamps,
                   target_text |-> fmt[t].target_text,
                   max_width |-> len,
                   target |-> target,
                   line |-> format_line(fmt[t].timestamps, RecordLevel,
                                        target, RecordMessage)]]
    /\ UNCHANGED << observed, init_vars, args, cause_chain, filtered >>

(***************************************************************************)
(* initialize_logging (lines 162-198).                                     *)
(***************************************************************************)
\* a log_file failure swallowed
initialize_result_fallback(settings, file_ok) ==
    IF logger # None THEN "SetLoggerError" ELSE "Ok"

\* an apply that replaces the installed logger
initialize_result_reapply(settings, file_ok) ==
    IF settings.file # None /\ ~file_ok THEN "IoError" ELSE "Ok"

\* what the call returns: log_file fails (line 190), apply fails (line 196)
initialize_result(settings, file_ok) ==
    IF settings.file # None /\ ~file_ok THEN "IoError"
    ELSE IF logger # None THEN "SetLoggerError"
    ELSE "Ok"

\* the width computed from NIMIQ_MODULES while the pipeline is built
initialize_logging_precomputed(command_line_opt, settings_opt, file_ok) ==
    /\ calls < MaxCalls
    /\ LET settings == merged_settings(command_line_opt, settings_opt)
           res == initialize_result(settings, file_ok)
           lens == {Len(NIMIQ_MODULES[i]) : i \in DOMAIN NIMIQ_MODULES}
       IN  /\ result' = res
           /\ logger' = IF res = "Ok" THEN Some(build_dispatch(settings))
                        ELSE logger
           /\ MAX_MODULE_WIDTH' = CHOOSE n \in lens : \A m \in lens : m <= n
    /\ calls' = calls + 1
    /\ UNCHANGED << fmt, observed, cause_chain, filtered >>

initialize_logging(command_line_opt, settings_opt, file_ok) ==
    /\ calls < MaxCalls
    /\ LET settings == merged_settings(command_line_opt, settings_opt)
           res == initialize_result(settings, file_ok)
       IN  /\ result' = res
           /\ logger' = IF res = "Ok" THEN Some(build_dispatch(settings))
                        ELSE logger
    /\ calls' = calls + 1
    /\ UNCHANGED << width_vars, cause_chain, filtered >>

\* a call with the arguments fixed in advance
InitializeLoggingArgs ==
    /\ args # None
    /\ initialize_logging(args[1].command_line_opt, args[1].settings_opt,
                          args[1].file_ok)
    /\ UNCHANGED args

\* a call with a configuration file only and no command line
InitializeLoggingSettings ==
    /\ \E settings_opt \in Options(LogSettingsSet), file_ok \in BOOLEAN :
         initialize_logging(None, settings_opt, file_ok)
    /\ UNCHANGED args

\* a call with command-line overrides only and no configuration file
InitializeLoggingCommandLine ==
    /\ \E command_line_opt \in Options(CommandLineSet) :
         initialize_logging(command_line_opt, None, TRUE)
    /\ UNCHANGED args

(***************************************************************************)
(* log_error_cause_chain (lines 148-158) and force_log! (lines 138-146).   *)
(* An error is the list of the messages of its chain: the error itself,    *)
(* then its cause, then the cause of the cause.                            *)
(***************************************************************************)
ErrorChain(n) == [i \in 1..(n + 1) |-> "error " \o ToString(i - 1)]

\* Fail::cause of the error at position i of the chain
cause(error_chain, i) == IF i < Len(error_chain) THEN Some(i + 1) ELSE None

\* module_path!() of logging.rs, the target of the records force_log! emits
MODULE_PATH == "nimiq_lib::extras::logging"

\* the else branch of force_log! left out: a disabled line goes nowhere
force_log_no_fallback(lvl, text) ==
    [text |-> text, level |-> lvl,
     via |-> IF log_enabled(lvl, MODULE_PATH) THEN "log" ELSE "dropped"]

\* force_log!: through the logger when enabled, else eprintln!
force_log(lvl, text) ==
    [text |-> text, level |-> lvl,
     via |-> IF log_enabled(lvl, MODULE_PATH) THEN "log" ELSE "eprintln"]

\* A line sent through the logger is a record the installed formatter
\* formats on the calling thread, under the last segment of MODULE_PATH:
\* max_module_width runs for it (load, and store if the name is longer).
\* A line written by eprintln! is not formatted.
emit(line) ==
    /\ IF line.via = "log"
       THEN LET target_text == LastSegment(MODULE_PATH)
            IN  /\ observed' = observed \cup {target_text}
                /\ MAX_MODULE_WIDTH' =
                       IF MAX_MODULE_WIDTH < Len(target_text)
                       THEN Len(target_text)
                       ELSE MAX_MODULE_WIDTH
       ELSE UNCHANGED << MAX_MODULE_WIDTH, observed >>
    /\ UNCHANGED fmt

\* line 150
LogErrorStart ==
    /\ cause_chain.pc \in {"idle", "returned"}
    /\ \E n \in 0..MaxCauses :
         LET error_chain == ErrorChain(n)
             line == force_log(Error, error_chain[1])
         IN  /\ cause_chain' =
                    [pc |-> "if", chain |-> error_chain, fail |-> 1,
                     emitted |-> << line >>]
             /\ emit(line)
    /\ UNCHANGED << init_vars, args, filtered >>

\* the marker emitted without the test of line 151
LogErrorIf_always_marker ==
    /\ cause_chain.pc = "if"
    /\ LET line == force_log(Error, "  caused by")
       IN  /\ cause_chain' =
                  [cause_chain EXCEPT
                      !.pc = "while", !.emitted = Append(@, line)]
           /\ emit(line)
    /\ UNCHANGED << init_vars, args, filtered >>

\* lines 151-152
LogErrorIf ==
    /\ cause_chain.pc = "if"
    /\ IF cause(cause_chain.chain, cause_chain.fail) # None
       THEN LET line == force_log(Error, "  caused by")
            IN  /\ cause_chain' =
                       [cause_chain EXCEPT
                           !.pc = "while", !.emitted = Append(@, line)]
                /\ emit(line)
       ELSE /\ cause_chain' = [cause_chain EXCEPT !.pc = "returned"]
            /\ UNCHANGED width_vars
    /\ UNCHANGED << init_vars, args, filtered >>

\* lines 153-156
LogErrorWhile ==
    /\ cause_chain.pc = "while"
    /\ LET next == cause(cause_chain.chain, cause_chain.fail)
       IN  IF next # None
           THEN LET line == force_log(Error,
                                      "    " \o cause_chain.chain[next[1]])
                IN  /\ cause_chain' =
                           [cause_chain EXCEPT
                               !.fail = next[1],
                               !.emitted = Append(@, line)]
                    /\ emit(line)
           ELSE /\ cause_chain' = [cause_chain EXCEPT !.pc = "returned"]
                /\ UNCHANGED width_vars
    /\ UNCHANGED << init_vars, args, filtered >>

(***************************************************************************)
(* The program: threads formatting records, initialize_logging calls and   *)
(* log_error_cause_chain calls, interleaved.                               *)
(***************************************************************************)
Format == \E t \in Threads : FormatLoad(t) \/ FormatStore(t)

LogErrorCauseChain == LogErrorStart \/ LogErrorIf \/ LogErrorWhile

InitializeLogging == InitializeLoggingSettings \/ InitializeLoggingCommandLine

(***************************************************************************)
(* A pipeline built with only_nimiq (lines 133-135) is offered a record;   *)
(* the substrate asks its filters about the record's metadata.             *)
(***************************************************************************)
\* the targets of the records offered to the filtered pipeline
FilterTargets ==
    Range(NIMIQ_MODULES) \cup Targets
        \cup { "beserial::types", "libargon2_sys::argon2d",
               "nimiq", "nimiq::client", "nimi", "", "hyper", "Nimiq_lib",
               "xnimiq_lib", "tokio_core::reactor", "my_nimiq_lib" }

FilterRecord ==
    /\ Len(filtered) < MaxRecords
    /\ \E target \in FilterTargets :
         filtered' = Append(filtered,
             [target |-> target,
              accepted |-> passes_filters(only_nimiq(Dispatch_new), target)])
    /\ UNCHANGED << width_vars, init_vars, args, cause_chain >>

Next == Format \/ InitializeLogging \/ LogErrorCauseChain \/ FilterRecord

Spec == Init /\ [][Next]_vars

(***************************************************************************)
(* The three parts of the program share one variable only: logger, written *)
(* by initialize_logging and read by force_log!.  The width tracker and    *)
(* the formatters read and write width_vars alone.  Each part has its own  *)
(* specification below, with the actions of the other parts left out.      *)
(***************************************************************************)

\* the formatter threads alone
FormatSpec == Init /\ [][Format]_vars

\* one max_module_width call at a time: no load while a store is pending
SeqFormatLoad(t) ==
    /\ \A u \in Threads : fmt[u].pc # "store"
    /\ FormatLoad(t)

SeqFormat == \E t \in Threads : SeqFormatLoad(t) \/ FormatStore(t)

SeqFormatSpec == Init /\ [][SeqFormat]_vars

\* initialize_logging alone, on every combination of its arguments
InitSpec == InitArgs /\ [][InitializeLoggingArgs]_vars

\* initialize_logging alone, called again and again with changing arguments
CallsSpec == Init /\ [][InitializeLogging]_vars

\* log_error_cause_chain, before and after a pipeline is installed
CauseChainNext == LogErrorCauseChain \/ InitializeLoggingCommandLine

CauseChainSpec == Init /\ [][CauseChainNext]_vars

\* the only_nimiq filter alone
FilterSpec == Init /\ [][FilterRecord]_vars

(***************************************************************************)
(* Module-width tracker.                                                   *)
(***************************************************************************)
Max(a, b) == IF a >= b THEN a ELSE b

\* the largest of the initial width and the lengths of the names in S
MaxWidthOf(S) ==
    LET lens == {InitialWidth} \cup {Len(x) : x \in S}
    IN  CHOOSE n \in lens : \A m \in lens : m <= n

NoCallPending == \A t \in Threads : fmt[t].pc # "store"

\* C1: once every max_module_width call has returned, MAX_MODULE_WIDTH is
\* the maximum of the initial width 20 and the lengths of all names
\* observed, whatever the interleaving of the loads and stores.
C1_NoLostUpdate ==
    NoCallPending => MAX_MODULE_WIDTH = MaxWidthOf(observed)

\* C2: no step of any execution makes MAX_MODULE_WIDTH smaller.
C2_WidthNeverShrinks ==
    [][MAX_MODULE_WIDTH' >= MAX_MODULE_WIDTH]_vars

\* a call of thread t returns in this step
Returns(t) == fmt'[t].pc = "done" /\ fmt'[t] # fmt[t]

\* C3: with one call at a time, every call returns the maximum of the
\* initial width 20 and the lengths of the names observed up to and
\* including it, and no less than any width returned before.
C3_ReturnsMaxSoFar ==
    [][\A t \in Threads :
          Returns(t) =>
            /\ fmt'[t].max_width = MaxWidthOf(observed')
            /\ \A u \in Threads :
                 fmt[u].pc = "done" => fmt'[t].max_width >= fmt[u].max_width
      ]_vars

\* a call returned the width raised by a longer name after another call
\* had returned the width raised by a shorter one
C3_Witness ==
    \E t, u \in Threads :
        /\ fmt[t].pc = "done" /\ fmt[u].pc = "done"
        /\ fmt[u].target_text = "nimiq_network_primitives"
        /\ fmt[u].max_width = 24
        /\ fmt[t].target_text = "nimiq_block_production_albatross"
        /\ fmt[t].max_width = 32
        /\ MAX_MODULE_WIDTH = 32

(***************************************************************************)
(* initialize_logging: what the arguments of the call ask for.             *)
(***************************************************************************)
\* the file-sourced settings of the call
FileSettings ==
    IF args[1].settings_opt = None THEN LogSettings_default
    ELSE args[1].settings_opt[1]

\* the command-line log_tags of the call, empty when there are none
CommandLineTags ==
    IF args[1].command_line_opt # None
       /\ args[1].command_line_opt[1].log_tags # None
    THEN args[1].command_line_opt[1].log_tags[1]
    ELSE <<>>

CommandLineKeys == {CommandLineTags[i][1] : i \in DOMAIN CommandLineTags}

\* the level of the last command-line pair that names module k
CommandLineLevel(k) ==
    LET at == {i \in DOMAIN CommandLineTags : CommandLineTags[i][1] = k}
        last == CHOOSE i \in at : \A j \in at : j <= i
    IN  CommandLineTags[last][2]

\* command-line log_level, else file-sourced level, else Info
FirstPartyLevel ==
    IF args[1].command_line_opt # None
       /\ args[1].command_line_opt[1].log_level # None
    THEN args[1].command_line_opt[1].log_level[1]
    ELSE IF FileSettings.level # None THEN FileSettings.level[1]
    ELSE Info

\* the settings the call works with after the command-line overrides
FinalSettings ==
    merged_settings(args[1].command_line_opt, args[1].settings_opt)

FirstParty == Range(NIMIQ_MODULES)

\* first-party modules, the modules tags may name, and one that is neither
ModulesChecked == FirstParty \cup TagModules \cup {"tokio"}

Installed == logger # None

\* C4: in the installed pipeline a module's threshold is its tag's level
\* when the final settings.tags has it, also for a first-party module;
\* otherwise the first-party level when it is first-party; otherwise Info.
C4_ThresholdBySpecificity ==
    Installed =>
      \A m \in ModulesChecked :
        threshold(logger[1], m) =
          IF m \in DOMAIN FinalSettings.tags THEN FinalSettings.tags[m]
          ELSE IF m \in FirstParty
               THEN unwrap_or(FinalSettings.level, DEFAULT_LEVEL)
          ELSE Info

\* a tagged first-party module, an untagged one and a third-party module
\* with three different thresholds
C4_Witness ==
    /\ Installed
    /\ "nimiq_lib" \in DOMAIN FinalSettings.tags
    /\ threshold(logger[1], "nimiq_lib") = Off
    /\ threshold(logger[1], "nimiq_hash") = Debug
    /\ threshold(logger[1], "tokio") = Info

\* C5: a key in both the command-line log_tags and the file-sourced tags
\* takes the command-line level, and a file-sourced tag whose key is not
\* in the command-line tags keeps its level: in the merged settings.tags
\* and in the thresholds of the installed pipeline.
C5_CommandLineTagsWin ==
    /\ DOMAIN FinalSettings.tags = DOMAIN FileSettings.tags \cup CommandLineKeys
    /\ \A k \in DOMAIN FileSettings.tags \cup CommandLineKeys :
         LET lvl == IF k \in CommandLineKeys THEN CommandLineLevel(k)
                    ELSE FileSettings.tags[k]
         IN  /\ FinalSettings.tags[k] = lvl
             /\ Installed => threshold(logger[1], k) = lvl

\* a colliding key with two different levels beside a file-only key
C5_Witness ==
    /\ Installed
    /\ DOMAIN FileSettings.tags = {"nimiq_lib", "hyper"}
    /\ CommandLineKeys = {"nimiq_lib"}
    /\ FileSettings.tags["nimiq_lib"] = Off
    /\ FileSettings.tags["hyper"] = Off
    /\ threshold(logger[1], "nimiq_lib") = Debug
    /\ threshold(logger[1], "hyper") = Off

\* C6: the first-party level is the command-line log_level, else the
\* file-sourced level, else Info; every first-party module without a tag
\* has it as threshold, and the global default is Info whatever the levels.
C6_FirstPartyLevel ==
    Installed =>
      /\ logger[1].level = Info
      /\ \A m \in FirstParty \ DOMAIN FinalSettings.tags :
           threshold(logger[1], m) = FirstPartyLevel

\* the command-line level and the file-sourced level differ
C6_Witness ==
    /\ Installed
    /\ FileSettings.level = Some(Off)
    /\ args[1].command_line_opt # None
    /\ args[1].command_line_opt[1].log_level = Some(Debug)
    /\ threshold(logger[1], "nimiq_hash") = Debug
    /\ logger[1].level = Info

\* C7: an installed pipeline has exactly one sink: the file named by
\* settings.file when there is one, otherwise standard error.
C7_ExactlyOneSink ==
    Installed =>
      logger[1].output =
        IF FileSettings.file # None THEN << File(FileSettings.file[1]) >>
        ELSE << Stderr >>

C7_Witness ==
    /\ Installed
    /\ FileSettings.file = Some("app.log")
    /\ logger[1].output = << File("app.log") >>

\* C8: when settings.file is present and the file cannot be opened, the
\* call returns an IO error and no pipeline is installed, with standard
\* error or otherwise.
C8_FileFailureInstallsNothing ==
    (calls > 0 /\ FileSettings.file # None /\ ~args[1].file_ok) =>
      /\ result = "IoError"
      /\ logger = None

C8_Witness ==
    /\ calls > 0
    /\ FileSettings.file = Some("app.log")
    /\ ~args[1].file_ok
    /\ result = "IoError"

\* C9: once a pipeline is installed, every later call returns an error
\* and leaves the installed pipeline as it is.
C9_InstalledOnce ==
    [][Installed =>
         /\ logger' = logger
         /\ calls' # calls => result' \in {"IoError", "SetLoggerError"}
      ]_vars

\* a call after the installing one returned the apply error
C9_Witness ==
    /\ Installed
    /\ calls = 2
    /\ result = "SetLoggerError"

(***************************************************************************)
(* log_error_cause_chain.                                                  *)
(***************************************************************************)
Texts(lines) == [i \in DOMAIN lines |-> lines[i].text]

\* the lines for an error chain: the primary message, then, when there is
\* a cause, the marker and one indented line per cause, outermost first
ExpectedLines(error_chain) ==
    IF Len(error_chain) = 1 THEN << error_chain[1] >>
    ELSE << error_chain[1], "  caused by" >>
         \o [i \in 1..(Len(error_chain) - 1) |-> "    " \o error_chain[i + 1]]

\* the number of lines emitted when the call is at its current position
LinesSoFar ==
    CASE cause_chain.pc = "idle" -> 0
      [] cause_chain.pc = "if" -> 1
      [] cause_chain.pc = "while" -> cause_chain.fail + 1
      [] cause_chain.pc = "returned" -> Len(ExpectedLines(cause_chain.chain))

\* C10: a call on an error with n causes emits the primary message, then,
\* only if n >= 1, the marker and one line per cause in chain order, ends
\* at the first error without a cause and returns: at every position the
\* lines emitted are the first lines of that list, a call that has not
\* returned can take its next step, and one that has returned emitted the
\* whole list.
C10_CauseChainLines ==
    /\ Len(cause_chain.emitted) = LinesSoFar
    /\ cause_chain.pc # "idle" =>
         /\ cause_chain.fail \in 1..Len(cause_chain.chain)
         /\ LinesSoFar <= Len(ExpectedLines(cause_chain.chain))
         /\ Texts(cause_chain.emitted) =
              SubSeq(ExpectedLines(cause_chain.chain), 1, LinesSoFar)
    /\ cause_chain.pc \in {"if", "while"} => ENABLED LogErrorCauseChain

\* a call on an error with two causes has returned
C10_Witness ==
    /\ cause_chain.pc = "returned"
    /\ Len(cause_chain.chain) = 3
    /\ Texts(cause_chain.emitted) =
         << "error 0", "  caused by", "    error 1", "    error 2" >>

(***************************************************************************)
(* force_log!: where the lines of log_error_cause_chain go.                *)
(***************************************************************************)
\* Error severity passes the installed pipeline for the module of logging.rs
ErrorEnabled == Installed /\ threshold(logger[1], "nimiq_lib") >= Error

LastLine(lines) == lines[Len(lines)]

\* C11: every line log_error_cause_chain produces goes to one destination
\* and is never dropped: through the installed logger at Error level when
\* Error is enabled for the emitting module at that moment, otherwise,
\* also when no pipeline is installed, directly to standard error.
C11_LinesNeverDropped ==
    [][cause_chain'.emitted # cause_chain.emitted =>
         /\ LastLine(cause_chain'.emitted).level = Error
         /\ LastLine(cause_chain'.emitted).via =
              IF ErrorEnabled THEN "log" ELSE "eprintln"
         /\ \A i \in DOMAIN cause_chain'.emitted :
              cause_chain'.emitted[i].via \in {"log", "eprintln"}
      ]_vars

\* a call whose first line went to standard error and whose second line,
\* after a pipeline was installed in between, went through the logger
C11_Witness ==
    /\ Len(cause_chain.emitted) >= 2
    /\ cause_chain.emitted[1].via = "eprintln"
    /\ cause_chain.emitted[2].via = "log"
    /\ ErrorEnabled

(***************************************************************************)
(* The two low-level dependencies in NIMIQ_MODULES.                        *)
(***************************************************************************)
Dependencies == {"beserial", "libargon2_sys"}

NoDependencyTagged == Dependencies \cap DOMAIN FinalSettings.tags = {}

\* C12 as stated: the set level_for_nimiq walks leaves out beserial and
\* libargon2_sys, so that with a first-party level other than Info and no
\* tag for them their threshold is still the global default Info.
C12_DependenciesKeepDefault ==
    (Installed /\ NoDependencyTagged /\ FirstPartyLevel # Info) =>
      \A m \in Dependencies : threshold(logger[1], m) = Info

\* C12 amended: the set level_for_nimiq walks contains beserial and
\* libargon2_sys, so that with no tag for them their threshold is the
\* first-party level, also when that level is not Info.
C12_DependenciesGetFirstPartyLevel ==
    /\ Dependencies \subseteq FirstParty
    /\ (Installed /\ NoDependencyTagged) =>
         \A m \in Dependencies : threshold(logger[1], m) = FirstPartyLevel

\* a first-party level of Debug reaches both dependencies, not a third party
C12_Witness ==
    /\ Installed
    /\ NoDependencyTagged
    /\ FirstPartyLevel = Debug
    /\ threshold(logger[1], "beserial") = Debug
    /\ threshold(logger[1], "libargon2_sys") = Debug
    /\ threshold(logger[1], "tokio") = Info

(***************************************************************************)
(* The width tracker and the building of the pipeline.                     *)
(***************************************************************************)
\* a record is formatted in this step: a line goes through the logger
RecordFormatted ==
    /\ cause_chain'.emitted # cause_chain.emitted
    /\ LastLine(cause_chain'.emitted).via = "log"

\* C13: an initialize_logging call, which builds and installs the
\* pipeline, leaves the width tracker as it is, and the tracker is read
\* and updated only in a step that formats a record: nothing is computed
\* in advance from the first-party module set.
C13_WidthOnlyAtFormatTime ==
    [][/\ calls' # calls => UNCHANGED width_vars
       /\ width_vars' # width_vars => RecordFormatted
      ]_vars

\* a pipeline is installed and a record was formatted under a short name:
\* the width is still the initial one, not that of the longest module
C13_Witness ==
    /\ Installed
    /\ observed = {"logging"}
    /\ MAX_MODULE_WIDTH = InitialWidth
    /\ \E i \in DOMAIN NIMIQ_MODULES : Len(NIMIQ_MODULES[i]) > InitialWidth

(***************************************************************************)
(* The line of a formatted record.                                         *)
(***************************************************************************)
\* what precedes the name in a line, and what follows it
BeforeName(show_timestamps) ==
    Len(" ") + (IF show_timestamps THEN Len(Timestamp) + Len(" ") ELSE 0)
        + Len("ERROR") + Len(" ")

AfterName == " | " \o RecordMessage

\* the column of the name in a finished line
NameColumn(f) ==
    SubSeq(f.line, BeforeName(f.timestamps) + 1, Len(f.line) - Len(AfterName))

\* name is the last "::"-separated segment of target
IsLastSegment(name, target) ==
    /\ Len(name) <= Len(target)
    /\ SubSeq(target, Len(target) - Len(name) + 1, Len(target)) = name
    /\ \A i \in 1..(Len(name) - 1) : SubSeq(name, i, i + 1) # "::"
    /\ \/ Len(name) = Len(target)
       \/ /\ Len(target) >= Len(name) + 2
          /\ SubSeq(target, Len(target) - Len(name) - 1,
                    Len(target) - Len(name)) = "::"

\* C14: in a finished line of either formatter, the name measured and
\* displayed is the last "::"-separated segment of the record's target, its
\* column is as wide as the width max_module_width returned for it, the
\* name comes first in the column in full and the rest of it is spaces.
C14_NamePaddedToWidth ==
    \A t \in Threads :
        fmt[t].pc = "done" =>
            LET f == fmt[t]
                column == NameColumn(f)
            IN  /\ IsLastSegment(f.target_text, f.record)
                /\ Len(f.line) >= BeforeName(f.timestamps) + Len(AfterName)
                /\ SubSeq(f.line, Len(f.line) - Len(AfterName) + 1,
                          Len(f.line)) = AfterName
                /\ Len(column) = f.max_width
                /\ Len(column) >= Len(f.target_text)
                /\ SubSeq(column, 1, Len(f.target_text)) = f.target_text
                /\ \A i \in (Len(f.target_text) + 1)..Len(column) :
                       SubSeq(column, i, i) = " "

\* a plain line and a timestamped line are finished; one of them shows a
\* 7-character name in a column of the tracked width 24
C14_Witness ==
    \E t, u \in Threads :
        /\ fmt[t].pc = "done" /\ fmt[u].pc = "done"
        /\ fmt[t].timestamps /\ ~fmt[u].timestamps
        /\ fmt[t].record = "nimiq_network_primitives"
        /\ fmt[u].record = "nimiq_lib::extras::logging"
        /\ fmt[u].target_text = "logging"
        /\ Len(NameColumn(fmt[u])) = Len("nimiq_network_primitives")
        /\ MAX_MODULE_WIDTH = Len("nimiq_network_primitives")

(***************************************************************************)
(* The lower bounds of the width.                                          *)
(***************************************************************************)
\* C16: in every reachable state, whatever the interleaving of the
\* max_module_width calls, MAX_MODULE_WIDTH is at least the initial width
\* 20, and the width a call returned is at least 20 and at least the length
\* of the name the call was given.
C16_WidthLowerBounds ==
    /\ MAX_MODULE_WIDTH >= InitialWidth
    /\ \A t \in Threads :
           fmt[t].pc = "done" =>
               /\ fmt[t].max_width >= InitialWidth
               /\ fmt[t].max_width >= Len(fmt[t].target_text)

\* two calls raced and the later store lowered the width from 32 to 24;
\* both returned at least 20 and at least the length of their name
C16_Witness ==
    \E t, u \in Threads :
        /\ fmt[t].pc = "done" /\ fmt[u].pc = "done"
        /\ fmt[t].max_width = Len("nimiq_block_production_albatross")
        /\ fmt[u].max_width = Len("nimiq_network_primitives")
        /\ MAX_MODULE_WIDTH = Len("nimiq_network_primitives")
        /\ "nimiq_block_production_albatross" \in observed

(***************************************************************************)
(* The only_nimiq filter.                                                  *)
(***************************************************************************)
\* the target begins with the five characters n, i, m, i, q
BeginsWithNimiq(target) ==
    /\ Len(target) >= Len("nimiq")
    /\ \A i \in 1..Len("nimiq") :
           SubSeq(target, i, i) = SubSeq("nimiq", i, i)

\* C15: a record offered to an only_nimiq pipeline is accepted exactly
\* when its target starts with "nimiq"; so the records of beserial and
\* libargon2_sys are rejected and the records of every other member of
\* NIMIQ_MODULES are accepted.
C15_OnlyNimiqByPrefix ==
    \A i \in DOMAIN filtered :
        LET r == filtered[i]
        IN  /\ r.accepted <=> BeginsWithNimiq(r.target)
            /\ Crate(r.target) \in Dependencies => ~r.accepted
            /\ Crate(r.target) \in Range(NIMIQ_MODULES) \ Dependencies
                   => r.accepted

\* a record of beserial was rejected and a record of nimiq_lib accepted
C15_Witness ==
    /\ Len(filtered) = MaxRecords
    /\ filtered[1] = [target |-> "beserial", accepted |-> FALSE]
    /\ filtered[Len(filtered)] =
           [target |-> "nimiq_lib::extras::logging", accepted |-> TRUE]

====
